---- MODULE Spec2Model ----
(***************************************************************************)
(* Model of the I18NBase locale store of src/src/mi18n.js.                 *)
(*                                                                         *)
(* JavaScript strings that the code takes apart (file text, keys, values,  *)
(* the location) are sequences of one-character strings, so the empty      *)
(* string is << >> and is falsy.  Locale identifiers are only ever used    *)
(* whole and are TLA+ strings.  Table objects live in a heap of            *)
(* references, because the code distinguishes "the same object" from "an   *)
(* equal object": applyLanguage builds a new object, this.current keeps a  *)
(* reference.  Reference 0 stands for undefined.                           *)
(***************************************************************************)
EXTENDS Integers, Sequences, FiniteSets, Bags, TLC

\* ---------------------------------------------------------------- bounds
\* asynchronous calls (loadLang / setCurrent / init) that may be in flight
MaxCalls == 1
\* entries the loaded array may hold (applyLanguage and addLanguage push)
MaxLoaded == 2
\* entries a langs array may hold (addLanguage pushes)
MaxLangs == 3
\* characters of a translation value handed to get
MaxValueLen == 6
\* characters of a line of a language file handed to processFile
MaxLineLen == 4

\* ---------------------------------------------------------- JS primitives
Undefined == "undefined"
Null == "null"
NoRef == 0

\* value || alternative, for locale identifiers
LocaleTruthy(l) == l \notin {Undefined, Null, ""}

\* undefined where a string is expected: no string, since the elements of a
\* string are single characters
UndefinedValue == <<"undefined">>

\* truthiness of a table value that may be missing: a missing key reads as
\* undefined, the empty string is falsy
Truthy(v) == v # UndefinedValue /\ v # << >>

\* { ...a, ...b } on plain objects: keys of b win
Merge(a, b) ==
  [k \in (DOMAIN a) \cup (DOMAIN b) |-> IF k \in DOMAIN b THEN b[k] ELSE a[k]]

EmptyObj == [k \in {} |-> << >>]

\* obj[key] on a table: undefined when the key is missing
Prop(obj, key) == IF key \in DOMAIN obj THEN obj[key] ELSE UndefinedValue

\* ------------------------------------------- objects keyed by locale
\* An object whose keys are locales (langs, override, preloaded) is the
\* sequence of its entries in insertion order: Object.keys / Object.values
\* enumerate in that order.
LocaleKeys(m) == [i \in 1..Len(m) |-> m[i].locale]

HasLocale(m, l) == \E i \in 1..Len(m) : m[i].locale = l

IndexOfLocale(m, l) == CHOOSE i \in 1..Len(m) : m[i].locale = l

\* m[l] || {}  for override and preloaded
TableOr(m, l) == IF HasLocale(m, l) THEN m[IndexOfLocale(m, l)].tbl ELSE EmptyObj

\* m[l] = v : an existing key keeps its position, a new key is appended
SetEntry(m, l, e) ==
  IF HasLocale(m, l)
  THEN [m EXCEPT ![IndexOfLocale(m, l)] = e]
  ELSE Append(m, e)

\* new Set([...a, ...b]) : first occurrences, in order
RECURSIVE Dedupe(_)
Dedupe(s) ==
  IF s = << >> THEN << >>
  ELSE LET r == Dedupe(SubSeq(s, 1, Len(s) - 1))
           x == s[Len(s)]
       IN IF \E i \in 1..Len(r) : r[i] = x THEN r ELSE Append(r, x)

\* this.loaded.includes(x) and this.loaded.push(x)
Includes(arr, x) == BagIn(x, arr)

Push(arr, x) == arr (+) SetToBag({x})

\* ----------------------------------------------------------- file parser
NL == "\n"
SP == " "
EQ == "="

\* response.replaceAll('\n\n', '\n') : non-overlapping matches, left to right
RECURSIVE CollapseNewlines(_)
CollapseNewlines(s) ==
  IF Len(s) < 2 THEN s
  ELSE IF s[1] = NL /\ s[2] = NL
       THEN <<NL>> \o CollapseNewlines(SubSeq(s, 3, Len(s)))
       ELSE <<s[1]>> \o CollapseNewlines(SubSeq(s, 2, Len(s)))

\* rawText.split('\n') : the separated pieces, an empty text gives one empty line
RECURSIVE SplitLines(_)
SplitLines(s) ==
  IF \A i \in 1..Len(s) : s[i] # NL THEN <<s>>
  ELSE LET i == CHOOSE j \in 1..Len(s) : s[j] = NL /\ \A h \in 1..(j - 1) : s[h] # NL
       IN <<SubSeq(s, 1, i - 1)>> \o SplitLines(SubSeq(s, i + 1, Len(s)))

\* String.prototype.trim
RECURSIVE TrimLeft(_)
TrimLeft(s) ==
  IF s # << >> /\ s[1] \in {SP, NL} THEN TrimLeft(SubSeq(s, 2, Len(s))) ELSE s

RECURSIVE TrimRight(_)
TrimRight(s) ==
  IF s # << >> /\ s[Len(s)] \in {SP, NL} THEN TrimRight(SubSeq(s, 1, Len(s) - 1)) ELSE s

Trim(s) == TrimLeft(TrimRight(s))

\* /^(.+?) *?= *?([^\n]+)/ with group 1 of length n: after the n characters
\* come only spaces up to an '=', and at least one character follows the '='
MatchesAt(line, n) ==
  \E e \in (n + 1)..(Len(line) - 1) :
    /\ line[e] = EQ
    /\ \A i \in (n + 1)..(e - 1) : line[i] = SP

\* position of the '=' the match with group 1 of length n uses
EqualsAt(line, n) ==
  CHOOSE e \in (n + 1)..(Len(line) - 1) :
    line[e] = EQ /\ \A i \in (n + 1)..(e - 1) : line[i] = SP

\* regex.exec(line) : group 1 is lazy, so the shortest n >= 1 that matches
HasMatch(line) == \E n \in 1..Len(line) : MatchesAt(line, n)

\* group 1 greedy, (.+) : the longest n that matches
MatchLen_Greedy(line) ==
  CHOOSE n \in 1..Len(line) :
    MatchesAt(line, n) /\ \A m \in (n + 1)..Len(line) : ~MatchesAt(line, m)

MatchLen(line) ==
  CHOOSE n \in 1..Len(line) :
    MatchesAt(line, n) /\ \A m \in 1..(n - 1) : ~MatchesAt(line, m)

\* the loop of fromFile over lines[from..]: lang[matches[1]] = matches[2].trim()
RECURSIVE FromLines(_, _)
FromLines(lines, lang) ==
  IF lines = << >> THEN lang
  ELSE LET line == lines[1]
           rest == SubSeq(lines, 2, Len(lines))
       IN IF HasMatch(line)
          THEN LET n == MatchLen(line)
                   e == EqualsAt(line, n)
                   key == SubSeq(line, 1, n)
                   val == Trim(SubSeq(line, e + 1, Len(line)))
               IN FromLines(rest, Merge(lang, [k \in {key} |-> val]))
          ELSE FromLines(rest, lang)

fromFile(rawText) == FromLines(SplitLines(rawText), EmptyObj)

processFile(response) == fromFile(CollapseNewlines(response))

\* ------------------------------------------------------------ the store
VARIABLES
  langs,         \* this.langs: entries [locale, ref] in insertion order
  heap,          \* the table objects that are still referenced, by reference
  loaded,        \* this.loaded: the locales pushed, as a bag (one copy per
                 \* push; the code reads the array only through includes)
  config,        \* this.config
  locale,        \* this.locale
  current,       \* this.current: a reference, NoRef while undefined
  arrays,        \* the arrays a langs option can refer to, by reference
  calls,         \* the asynchronous calls awaiting fetchData or their resumption
  ret            \* what the last completed call returned (or resolved to)

vars == <<langs, heap, loaded, config, locale, current, arrays, calls, ret>>

\* the two arrays config.langs can be: the one DEFAULT_CONFIG holds, which
\* every store built without a langs option shares, or the caller's own
DefaultLangs == "DEFAULT_CONFIG.langs"
OwnLangs == "options.langs"

DEFAULT_CONFIG ==
  [ extension |-> <<".", "l">>,
    location  |-> <<"l", "/">>,
    langs     |-> DefaultLangs,
    locale    |-> "en-US",
    override  |-> << >> ]

\* the fields of the store an operation reads and writes
This ==
  [ langs |-> langs, heap |-> heap, loaded |-> loaded, config |-> config,
    locale |-> locale, current |-> current, arrays |-> arrays ]

\* this.langs[l], NoRef when undefined
LangRef(this, l) ==
  IF HasLocale(this.langs, l) THEN this.langs[IndexOfLocale(this.langs, l)].ref
  ELSE NoRef

\* the table this.langs[l] holds; only used where it is defined
LangTable(this, l) == this.heap[LangRef(this, l)]

\* a reference no live object has: the identity of a newly created object
NewRef(h) ==
  CHOOSE r \in 1..(Cardinality(DOMAIN h) + 1) :
    r \notin DOMAIN h /\ \A q \in 1..(r - 1) : q \in DOMAIN h

\* applyLanguage with the override spread first instead of last
applyLanguage_OverrideFirst(this, l, lang) ==
  LET override == TableOr(this.config.override, l)
      existingLang == IF HasLocale(this.langs, l) THEN LangTable(this, l) ELSE EmptyObj
      r == NewRef(this.heap)
  IN [this EXCEPT
        !.heap = (r :> Merge(Merge(override, existingLang), lang)) @@ this.heap,
        !.langs = SetEntry(this.langs, l, [locale |-> l, ref |-> r]),
        !.loaded = Push(this.loaded, l)]

\* applyLanguage without the spread of the existing table
applyLanguage_DropsExisting(this, l, lang) ==
  LET override == TableOr(this.config.override, l)
      r == NewRef(this.heap)
  IN [this EXCEPT
        !.heap = (r :> Merge(lang, override)) @@ this.heap,
        !.langs = SetEntry(this.langs, l, [locale |-> l, ref |-> r]),
        !.loaded = Push(this.loaded, l)]

\* applyLanguage that resets the table of a locale it has loaded before to the
\* override alone
applyLanguage_ResetLoaded(this, l, lang) ==
  LET override == TableOr(this.config.override, l)
      r == NewRef(this.heap)
  IN [this EXCEPT
        !.heap = (r :> IF Includes(this.loaded, l) THEN override
                       ELSE Merge(lang, override)) @@ this.heap,
        !.langs = SetEntry(this.langs, l, [locale |-> l, ref |-> r]),
        !.loaded = Push(this.loaded, l)]

\* applyLanguage(locale, lang = {})
applyLanguage(this, l, lang) ==
  LET override == TableOr(this.config.override, l)
      existingLang == IF HasLocale(this.langs, l) THEN LangTable(this, l) ELSE EmptyObj
      r == NewRef(this.heap)
  IN [this EXCEPT
        !.heap = (r :> Merge(Merge(existingLang, lang), override)) @@ this.heap,
        !.langs = SetEntry(this.langs, l, [locale |-> l, ref |-> r]),
        !.loaded = Push(this.loaded, l)]

\* the for loop of processConfig over allLocales[i..]
RECURSIVE ApplyAll(_, _, _, _)
ApplyAll(this, allLocales, preloaded, override) ==
  IF allLocales = << >> THEN this
  ELSE LET l == allLocales[1]
           mergedLang == Merge(TableOr(preloaded, l), TableOr(override, l))
       IN ApplyAll(applyLanguage(this, l, mergedLang),
                   SubSeq(allLocales, 2, Len(allLocales)), preloaded, override)

\* location.endsWith('/') ? location : `${location}/`
ParsedLocation(location) ==
  IF location # << >> /\ location[Len(location)] = "/" THEN location
  ELSE location \o <<"/">>

\* array[0], undefined on an empty array
First(arr) == IF arr = << >> THEN Undefined ELSE arr[1]

\* processConfig without  || this.config.langs[0]
processConfig_LocaleOnly(this, options) ==
  LET merged == Merge(DEFAULT_CONFIG, options)
      cfg == [merged EXCEPT !.location = ParsedLocation(merged.location)]
      preloaded == IF "preloaded" \in DOMAIN cfg THEN cfg.preloaded ELSE << >>
      override == cfg.override
      allLocales == Dedupe(LocaleKeys(preloaded) \o LocaleKeys(override))
      applied == ApplyAll([this EXCEPT !.config = cfg], allLocales, preloaded, override)
  IN [applied EXCEPT !.locale = cfg.locale]

\* processConfig(options)
processConfig(this, options) ==
  LET merged == Merge(DEFAULT_CONFIG, options)
      cfg == [merged EXCEPT !.location = ParsedLocation(merged.location)]
      preloaded == IF "preloaded" \in DOMAIN cfg THEN cfg.preloaded ELSE << >>
      override == cfg.override
      allLocales == Dedupe(LocaleKeys(preloaded) \o LocaleKeys(override))
      applied == ApplyAll([this EXCEPT !.config = cfg], allLocales, preloaded, override)
  IN [applied EXCEPT
        !.locale = IF LocaleTruthy(cfg.locale) THEN cfg.locale
                   ELSE First(applied.arrays[cfg.langs])]

\* addLanguage(locale, lang = {}) ; lang is [type, val], typeof lang being type
addLanguage(this, l, lang) ==
  LET parsed == IF lang.type = "string" THEN processFile(lang.val) ELSE lang.val
      applied == applyLanguage(this, l, parsed)
  IN [applied EXCEPT
        !.loaded = Push(applied.loaded, l),
        !.arrays[applied.config.langs] = Append(@, l)]

\* a find that keeps the last table with a truthy value instead of the first
FindFrom_Last(this, key, i) ==
  LET hits == {j \in i..Len(this.langs) :
                 Truthy(Prop(this.heap[this.langs[j].ref], key))}
  IN IF hits = {} THEN 0 ELSE CHOOSE j \in hits : \A h \in hits : h <= j

\* Object.values(this.langs).find(lang => lang[key]) : position of the first
\* table, in insertion order, with a truthy value for key; 0 when none has
RECURSIVE FindFrom(_, _, _)
FindFrom(this, key, i) ==
  IF i > Len(this.langs) THEN 0
  ELSE IF Truthy(Prop(this.heap[this.langs[i].ref], key)) THEN i
       ELSE FindFrom(this, key, i + 1)

\* getFallbackValue(key)
getFallbackValue(this, key) ==
  LET i == FindFrom(this, key, 1)
  IN IF i = 0 THEN UndefinedValue ELSE Prop(this.heap[this.langs[i].ref], key)

\* getValue(key, locale = this.locale)
getValue(this, key, l) ==
  LET value == IF HasLocale(this.langs, l) THEN Prop(LangTable(this, l), key)
               ELSE UndefinedValue
  IN IF Truthy(value) THEN value ELSE getFallbackValue(this, key)

\* put(key, string) : the assignment this.current[key] = string; it throws a
\* TypeError while this.current is undefined
putThrows(this) == this.current = NoRef

put(this, key, string) ==
  [this EXCEPT !.heap[this.current] = Merge(@, (key :> string))]

\* ------------------------------------------------------ get: interpolation
\* null where a string is expected
NullValue == <<"null">>

\* value.match(/\{[^}]+?\}/g) : where the token that starts at i ends, 0 when
\* no token starts at i.  A token is '{', at least one character that is not
\* '}', and the first '}' after them.
TokenEnd(s, i) ==
  IF /\ i + 2 <= Len(s)
     /\ s[i] = "{"
     /\ s[i + 1] # "}"
     /\ \E j \in (i + 2)..Len(s) : s[j] = "}"
  THEN CHOOSE j \in (i + 2)..Len(s) : s[j] = "}" /\ \A h \in (i + 2)..(j - 1) : s[h] # "}"
  ELSE 0

\* the matches of the global token pattern from position i on, left to right
\* and not overlapping
RECURSIVE Tokens(_, _)
Tokens(s, i) ==
  IF i > Len(s) THEN << >>
  ELSE IF TokenEnd(s, i) # 0
       THEN <<SubSeq(s, i, TokenEnd(s, i))>> \o Tokens(s, TokenEnd(s, i) + 1)
       ELSE Tokens(s, i + 1)

\* what one character of the source handed to new RegExp matches: makeSafe
\* escapes '{', '}' and '|', which then match themselves; '.' is left as it
\* is and matches any character but a line terminator; a letter matches itself
Atom(ch) == [any |-> ch = ".", ch |-> ch]

AtomMatches(atom, ch) == IF atom.any THEN ch # NL ELSE atom.ch = ch

\* makeSafe(str) : the pattern, one atom per character of str
makeSafe(str) == [i \in 1..Len(str) |-> Atom(str[i])]

\* the pattern matches the text at position i
MatchAt(re, s, i) ==
  /\ i + Len(re) - 1 <= Len(s)
  /\ \A n \in 1..Len(re) : AtomMatches(re[n], s[i + n - 1])

\* the text a replacement string stands for: String.prototype.replace reads
\* '$$' as '$' and '$&' as the matched text
RECURSIVE Expand(_, _)
Expand(r, matched) ==
  IF r = << >> THEN << >>
  ELSE IF Len(r) >= 2 /\ r[1] = "$" /\ r[2] = "$"
       THEN <<"$">> \o Expand(SubSeq(r, 3, Len(r)), matched)
  ELSE IF Len(r) >= 2 /\ r[1] = "$" /\ r[2] = "&"
       THEN matched \o Expand(SubSeq(r, 3, Len(r)), matched)
  ELSE <<r[1]>> \o Expand(SubSeq(r, 2, Len(r)), matched)

\* s.replace(re, r) with a global re, from position i on
RECURSIVE ReplaceFrom(_, _, _, _)
ReplaceFrom(s, re, r, i) ==
  IF i > Len(s) THEN << >>
  ELSE IF MatchAt(re, s, i)
       THEN Expand(r, SubSeq(s, i, i + Len(re) - 1)) \o ReplaceFrom(s, re, r, i + Len(re))
       ELSE <<s[i]>> \o ReplaceFrom(s, re, r, i + 1)

\* value.replaceAll(/\{[^}]+?\}/g, r), from position i on
RECURSIVE ReplaceAllTokens(_, _, _)
ReplaceAllTokens(s, r, i) ==
  IF i > Len(s) THEN << >>
  ELSE IF TokenEnd(s, i) # 0
       THEN Expand(r, SubSeq(s, i, TokenEnd(s, i))) \o ReplaceAllTokens(s, r, TokenEnd(s, i) + 1)
       ELSE <<s[i]>> \o ReplaceAllTokens(s, r, i + 1)

\* the for loop of get over tokens:
\* value = value.replace(this.makeSafe(token), args[tokenKey] ?? '')
RECURSIVE ReplaceEach(_, _, _)
ReplaceEach(value, tokens, obj) ==
  IF tokens = << >> THEN value
  ELSE LET token == tokens[1]
           tokenKey == SubSeq(token, 2, Len(token) - 1)
           r == IF tokenKey \in DOMAIN obj /\ obj[tokenKey] \notin {NullValue, UndefinedValue}
                THEN obj[tokenKey] ELSE << >>
       IN ReplaceEach(ReplaceFrom(value, makeSafe(token), r, 1),
                      SubSeq(tokens, 2, Len(tokens)), obj)

\* the decimal digits of a natural number
Digits == <<"0", "1", "2", "3", "4", "5", "6", "7", "8", "9">>

RECURSIVE NumberToString(_)
NumberToString(n) ==
  IF n < 10 THEN <<Digits[n + 1]>>
  ELSE NumberToString(n \div 10) \o <<Digits[(n % 10) + 1]>>

\* An argument of get is [type, val], typeof it being type ("undefined" when
\* none was passed, "null" for null).  !args :
ArgsFalsy(args) ==
  \/ args.type \in {"undefined", "null"}
  \/ args.type = "string" /\ args.val = << >>
  \/ args.type = "number" /\ args.val = 0

\* the string replaceAll makes of a primitive replacement
ArgsToString(args) == IF args.type = "number" THEN NumberToString(args.val) ELSE args.val

\* get(key, args)
get(this, key, args) ==
  LET value == getValue(this, key, this.locale)
      tokens == Tokens(value, 1)
  IN IF ~Truthy(value) THEN UndefinedValue
     ELSE IF ArgsFalsy(args) THEN value
     ELSE IF tokens = << >> THEN value
     ELSE IF args.type = "object" THEN ReplaceEach(value, tokens, args.val)
     ELSE ReplaceAllTokens(value, ArgsToString(args), 1)

\* get getLangs() : the array itself, not a copy
getLangs(this) == this.arrays[this.config.langs]

\* ----------------------------------------------------- asynchronous calls
Calls == 1..MaxCalls

Idle ==
  [op |-> "none", pc |-> "idle", locale |-> Undefined, langFile |-> << >>]

\* `${this.config.location}${locale}${this.config.extension}`, kept as its parts
LangFile(this, l) == <<this.config.location, l, this.config.extension>>

\* what a completed call gave back
Returned(op, l, key, str, ref, how) ==
  [op |-> op, locale |-> l, key |-> key, str |-> str, ref |-> ref, how |-> how]

\* nothing to look at: a constructor or a call that returns undefined
NoReturn == Returned("none", Undefined, << >>, << >>, NoRef, "none")

\* the objects that can still be reached: garbage has no identity to keep
Reachable(this, r) ==
  {this.langs[i].ref : i \in 1..Len(this.langs)} \cup ({this.current, r.ref} \ {NoRef})

\* A reference means nothing but which object it is, so the reachable objects
\* are numbered in the order langs, current, returned value.
Stored(this, x) == \E i \in 1..Len(this.langs) : this.langs[i].ref = x

Address(this, r, x) ==
  IF x = NoRef THEN NoRef
  ELSE IF Stored(this, x) THEN CHOOSE i \in 1..Len(this.langs) : this.langs[i].ref = x
  ELSE IF x = this.current THEN Len(this.langs) + 1
  ELSE IF this.current = NoRef \/ Stored(this, this.current) THEN Len(this.langs) + 1
  ELSE Len(this.langs) + 2

\* an array nothing refers to any more is dropped
LiveArrays(this) ==
  [a \in DOMAIN this.arrays |->
     IF a = OwnLangs /\ this.config.langs # OwnLangs THEN << >> ELSE this.arrays[a]]

\* the store, the pending calls and the returned value after a step
Commit(this, cs, r) ==
  /\ BagCardinality(this.loaded) <= MaxLoaded
  /\ \A a \in DOMAIN this.arrays : Len(this.arrays[a]) <= MaxLangs
  /\ langs' = [i \in 1..Len(this.langs) |-> [this.langs[i] EXCEPT !.ref = i]]
  /\ heap' = [a \in {Address(this, r, x) : x \in Reachable(this, r)} |->
                this.heap[CHOOSE x \in Reachable(this, r) : Address(this, r, x) = a]]
  /\ loaded' = this.loaded
  /\ config' = this.config
  /\ locale' = this.locale
  /\ current' = Address(this, r, this.current)
  /\ arrays' = LiveArrays(this)
  /\ calls' = cs
  /\ ret' = [r EXCEPT !.ref = Address(this, r, r.ref)]

\* ----------------------------------------------------------------- inputs
Locales == {"en-US", "fr-FR"}

K1 == <<"k">>
K2 == <<"j">>
Keys == {K1, K2}

\* values, named after where they come from
VPre == <<"p">>
VOver == <<"o">>
VFile == <<"f">>
VAdd == <<"a">>
VPut == <<"u">>
Empty == << >>

\* the override and the preloaded map a caller may configure
Over == << [locale |-> "fr-FR", tbl |-> (K1 :> VOver)] >>
Pre == << [locale |-> "fr-FR", tbl |-> (K1 :> VPre) @@ (K2 :> VPre)] >>

\* the options objects callers pass: the fields they wrote, nothing else
OptionSet ==
  { EmptyObj,
    [locale |-> Null, langs |-> <<"fr-FR", "en-US">>],
    [langs |-> <<"fr-FR", "en-US">>, override |-> Over, preloaded |-> Pre],
    [location |-> <<"l">>, locale |-> "fr-FR"],
    [locale |-> Null, langs |-> << >>] }

\* the locales addLanguage is called with, and the keys put is called with
AddedLocales == {"fr-FR"}
PutKeys == {K2}

\* texts fetchData may resolve to:  "k = f \n\nj=f"   "j= "
FileTexts ==
  { <<"k", " ", "=", " ", "f", " ", NL, NL, "j", "=", "f">>,
    <<"j", "=", " ">> }

\* second arguments of addLanguage:  {k: 'a'}   and the text  "j = a"
AddedLangs ==
  { [type |-> "object", val |-> (K1 :> VAdd)],
    [type |-> "string", val |-> <<"j", " ", "=", " ", "a">>] }

\* second arguments of applyLanguage:  {}   {k: '', j: 'a'}
AppliedLangs ==
  { EmptyObj, (K1 :> Empty) @@ (K2 :> VAdd) }

\* the characters of the translation values get is tried on, and the values
TokenChars == {"a", ".", "{", "}"}

TokenValues == UNION {[1..n -> TokenChars] : n \in 0..MaxValueLen}

\* second arguments of get: none, objects, strings and numbers
\*   {}   {a: 'x', '.': 'y'}   {a: '$&'}   {a: null, '.': '{a}'}
ObjectArgs ==
  { [type |-> "object", val |-> EmptyObj],
    [type |-> "object", val |-> (<<"a">> :> <<"x">>) @@ (<<".">> :> <<"y">>)],
    [type |-> "object", val |-> (<<"a">> :> <<"$", "&">>)],
    [type |-> "object", val |-> (<<"a">> :> NullValue) @@ (<<".">> :> <<"{", "a", "}">>)] }

\*   'x'   ''   '$&'   and   7   0
PrimitiveArgs ==
  { [type |-> "string", val |-> <<"x">>],
    [type |-> "string", val |-> << >>],
    [type |-> "string", val |-> <<"$", "&">>] }

NumberArgs ==
  { [type |-> "number", val |-> 7],
    [type |-> "number", val |-> 0] }

NoArgs == [type |-> "undefined", val |-> << >>]

\* the characters of the language files processFile is tried on; a file is
\* any line and one of a few others, in either order, with one or two
\* newlines between them
ParseChars == {"k", EQ, SP}

ParseLines == UNION {[1..n -> ParseChars] : n \in 0..MaxLineLen}

\* the lines   ""   "k"   "k=="   " =k"   "k= "
OtherLines ==
  { << >>, <<"k">>, <<"k", EQ, EQ>>, <<SP, EQ, "k">>, <<"k", EQ, SP>> }

ParseTexts ==
  UNION {{a \o sep \o b, b \o sep \o a} :
           a \in ParseLines, b \in OtherLines, sep \in {<<NL>>, <<NL, NL>>}}

\* an array literal in the options becomes an array of its own, and the
\* options refer to it
PassArrays(this, options) ==
  IF "langs" \in DOMAIN options
  THEN [this EXCEPT !.arrays[OwnLangs] = options.langs]
  ELSE this

OptionsObject(options) ==
  IF "langs" \in DOMAIN options THEN [options EXCEPT !.langs = OwnLangs] ELSE options

\* ------------------------------------------------------------ constructor
\* constructor(options = DEFAULT_CONFIG) : the fields before processConfig
Fresh ==
  [ langs |-> << >>, heap |-> [x \in {} |-> EmptyObj], loaded |-> EmptyBag,
    config |-> DEFAULT_CONFIG, locale |-> Undefined, current |-> NoRef,
    arrays |-> (DefaultLangs :> <<"en-US">>) @@ (OwnLangs :> << >>) ]

Constructed(options) ==
  processConfig(PassArrays(Fresh, options), OptionsObject(options))

Init ==
  \E options \in OptionSet :
    LET this == Constructed(options)
    IN /\ langs = this.langs
       /\ heap = this.heap
       /\ loaded = this.loaded
       /\ config = this.config
       /\ locale = this.locale
       /\ current = this.current
       /\ arrays = LiveArrays(this)
       /\ calls = [c \in Calls |-> Idle]
       /\ ret = NoReturn

\* ---------------------------------------------------------------- actions
\* A call is made once the value of the previous one has been taken.
Taken == ret = NoReturn

\* the call slot a new asynchronous call takes
FreeSlot(c) == calls[c].pc = "idle" /\ \A d \in 1..(c - 1) : calls[d].pc # "idle"

Pending(op, this, l) ==
  [op |-> op, pc |-> "fetch", locale |-> l, langFile |-> LangFile(this, l)]

\* processConfig(options), called directly
ProcessConfig(options) ==
  /\ Taken
  /\ Commit(processConfig(PassArrays(This, options), OptionsObject(options)), calls,
         NoReturn)

\* applyLanguage(locale, lang), called directly
ApplyLanguage(l, lang) ==
  /\ Taken
  /\ LET this == applyLanguage(This, l, lang)
     IN Commit(this, calls,
               Returned("applyLanguage", l, Empty, Empty, LangRef(this, l), "none"))

\* addLanguage(locale, lang)
AddLanguage(l, lang) ==
  /\ Taken
  /\ Commit(addLanguage(This, l, lang), calls,
         NoReturn)

\* put(key, string)
Put(key, string) ==
  /\ Taken
  /\ IF putThrows(This)
     THEN Commit(This, calls, Returned("put", Undefined, key, string, NoRef, "threw"))
     ELSE Commit(put(This, key, string), calls,
                 Returned("put", Undefined, key, string, NoRef, "none"))

\* loadLang that answers from the cache whatever useCache is
LoadLang_IgnoresUseCache(l, useCache) ==
  /\ Taken
  /\ IF Includes(loaded, l)
     THEN Commit(This, calls,
                 Returned("loadLang", l, Empty, Empty, LangRef(This, l), "cached"))
     ELSE \E c \in Calls :
            /\ FreeSlot(c)
            /\ Commit(This, [calls EXCEPT ![c] = Pending("loadLang", This, l)],
                      NoReturn)

\* loadLang(locale, useCache) : answered from the cache, or run up to
\* await fetchData(langFile)
LoadLang(l, useCache) ==
  /\ Taken
  /\ IF Includes(loaded, l) /\ useCache
     THEN Commit(This, calls,
                 Returned("loadLang", l, Empty, Empty, LangRef(This, l), "cached"))
     ELSE \E c \in Calls :
            /\ FreeSlot(c)
            /\ Commit(This, [calls EXCEPT ![c] = Pending("loadLang", This, l)],
                      NoReturn)

\* setCurrent(locale = 'en-US') from a store whose fields are this, on behalf
\* of op: to its end when the locale is loaded, else up to the await in loadLang
setCurrent(this, arg, op) ==
  LET l == IF arg = Undefined THEN "en-US" ELSE arg
  IN IF Includes(this.loaded, l)
     THEN LET done == [this EXCEPT !.locale = l, !.current = LangRef(this, l)]
          IN Commit(done, calls,
                    Returned(op, l, Empty, Empty, done.current, "loaded"))
     ELSE \E c \in Calls :
            /\ FreeSlot(c)
            /\ Commit(this, [calls EXCEPT ![c] = Pending(op, this, l)], NoReturn)

SetCurrent(arg) == Taken /\ setCurrent(This, arg, "setCurrent")

\* init(options)
InitCall(options) ==
  /\ Taken
  /\ LET passed == PassArrays(This, options)
         this == processConfig(passed, Merge(config, OptionsObject(options)))
     IN setCurrent(this, this.locale, "init")

\* the continuation of loadLang after fetchData: lang is the parsed file, or
\* nothing when fetchData rejected; then the call returns, or its caller waits
\* to be resumed
AfterFetch(c, lang, how) ==
  LET l == calls[c].locale
      this == applyLanguage(This, l, lang)
  IN IF calls[c].op = "loadLang"
     THEN Commit(this, [calls EXCEPT ![c] = Idle],
                 Returned("loadLang", l, Empty, Empty, LangRef(this, l), how))
     ELSE Commit(this, [calls EXCEPT ![c].pc = "resume"], NoReturn)

\* fetchData resolves with text
FetchResolve(c, text) ==
  /\ Taken
  /\ calls[c].pc = "fetch"
  /\ AfterFetch(c, processFile(text), "fetched")

\* loadLang without its catch: the rejection ends the call, nothing is stored
FetchReject_Propagates(c) ==
  /\ Taken
  /\ calls[c].pc = "fetch"
  /\ Commit(This, [calls EXCEPT ![c] = Idle],
            Returned(calls[c].op, calls[c].locale, Empty, Empty, NoRef, "rejected"))

\* a catch that stores the table without marking the locale as loaded
FetchReject_NotLoaded(c) ==
  /\ Taken
  /\ calls[c].pc = "fetch"
  /\ LET l == calls[c].locale
         this == [applyLanguage(This, l, EmptyObj) EXCEPT !.loaded = loaded]
     IN IF calls[c].op = "loadLang"
        THEN Commit(this, [calls EXCEPT ![c] = Idle],
                    Returned("loadLang", l, Empty, Empty, LangRef(this, l), "failed"))
        ELSE Commit(this, [calls EXCEPT ![c].pc = "resume"], NoReturn)

\* fetchData rejects
FetchReject(c) ==
  /\ Taken
  /\ calls[c].pc = "fetch"
  /\ AfterFetch(c, EmptyObj, "failed")

\* setCurrent that assigns this.locale and leaves this.current as it was
Resume_StaleCurrent(c) ==
  /\ Taken
  /\ calls[c].pc = "resume"
  /\ LET l == calls[c].locale
         done == [This EXCEPT !.locale = l]
     IN Commit(done, [calls EXCEPT ![c] = Idle],
               Returned(calls[c].op, l, Empty, Empty, done.current, "awaited"))

\* setCurrent after  await this.loadLang(locale)
Resume(c) ==
  /\ Taken
  /\ calls[c].pc = "resume"
  /\ LET l == calls[c].locale
         done == [This EXCEPT !.locale = l, !.current = LangRef(This, l)]
     IN Commit(done, [calls EXCEPT ![c] = Idle],
               Returned(calls[c].op, l, Empty, Empty, done.current, "awaited"))

\* the caller takes the returned value; an object only the returned value
\* referred to is gone with it
Return ==
  /\ ret # NoReturn
  /\ Commit(This, calls, NoReturn)

\* get(key, args)
Get(key, args) ==
  /\ Taken
  /\ LET value == get(This, key, args)
     IN Commit(This, calls,
               Returned("get", locale, key, value, NoRef,
                        IF value = UndefinedValue THEN "undefined" ELSE "value"))

\* I18N.processFile(response), the static method: the returned object is new
ProcessFile(response) ==
  /\ Taken
  /\ LET r == NewRef(heap)
         this == [This EXCEPT !.heap = (r :> processFile(response)) @@ heap]
     IN Commit(this, calls, Returned("processFile", Undefined, Empty, response, r, "none"))

\* every call but put
NextNoPut ==
  \/ Return
  \/ \E options \in OptionSet : ProcessConfig(options)
  \/ \E options \in OptionSet : InitCall(options)
  \/ \E l \in Locales, lang \in AppliedLangs : ApplyLanguage(l, lang)
  \/ \E l \in AddedLocales, lang \in AddedLangs : AddLanguage(l, lang)
  \/ \E l \in Locales, useCache \in BOOLEAN : LoadLang(l, useCache)
  \/ \E arg \in Locales \cup {Undefined} : SetCurrent(arg)
  \/ \E c \in Calls, text \in FileTexts : FetchResolve(c, text)
  \/ \E c \in Calls : FetchReject(c)
  \/ \E c \in Calls : Resume(c)

Next ==
  \/ NextNoPut
  \/ \E key \in PutKeys : Put(key, VPut)

Spec == Init /\ [][Next]_vars

\* the store used without put
SpecNoPut == Init /\ [][NextNoPut]_vars

\* the state in which the store has the fields of this and no call is pending
Start(this) ==
  /\ langs = this.langs
  /\ heap = this.heap
  /\ loaded = this.loaded
  /\ config = this.config
  /\ locale = this.locale
  /\ current = this.current
  /\ arrays = LiveArrays(this)
  /\ calls = [c \in Calls |-> Idle]
  /\ ret = NoReturn

\* new I18N({preloaded: {'en-US': {k: value}}}), then get
InitGet ==
  \E value \in TokenValues :
    Start(Constructed([preloaded |-> << [locale |-> "en-US", tbl |-> (K1 :> value)] >>]))

NextGet ==
  \/ Return
  \/ \E key \in Keys : Get(key, NoArgs)
  \/ \E key \in Keys, args \in ObjectArgs : Get(key, args)
  \/ \E key \in Keys, args \in PrimitiveArgs : Get(key, args)
  \/ \E key \in Keys, args \in NumberArgs : Get(key, args)

SpecGet == InitGet /\ [][NextGet]_vars

\* new I18N(), then the static parser
InitParse == Start(Constructed(EmptyObj))

NextParse ==
  \/ Return
  \/ \E response \in ParseTexts : ProcessFile(response)

SpecParse == InitParse /\ [][NextParse]_vars

\* new I18N(options); setCurrent(first); setCurrent(second), neither locale
\* loaded: each call has run up to await fetchData in loadLang and changed
\* nothing, so both are in flight
InitRace ==
  \E options \in OptionSet, first \in Locales \cup {Undefined},
     second \in Locales \cup {Undefined} :
    LET this == Constructed(options)
        l1 == IF first = Undefined THEN "en-US" ELSE first
        l2 == IF second = Undefined THEN "en-US" ELSE second
    IN /\ ~Includes(this.loaded, l1)
       /\ ~Includes(this.loaded, l2)
       /\ langs = this.langs
       /\ heap = this.heap
       /\ loaded = this.loaded
       /\ config = this.config
       /\ locale = this.locale
       /\ current = this.current
       /\ arrays = LiveArrays(this)
       /\ calls = << Pending("setCurrent", this, l1), Pending("setCurrent", this, l2) >>
       /\ ret = NoReturn

\* the fetches complete and the calls resume in any order
NextRace ==
  \/ Return
  \/ \E c \in DOMAIN calls, text \in FileTexts : FetchResolve(c, text)
  \/ \E c \in DOMAIN calls : FetchReject(c)
  \/ \E c \in DOMAIN calls : Resume(c)

SpecRace == InitRace /\ [][NextRace]_vars

\* a store constructed now, without options
NewStore == processConfig([Fresh EXCEPT !.arrays = arrays], EmptyObj)

\* the fields of the store after a step
ThisNext ==
  [ langs |-> langs', heap |-> heap', loaded |-> loaded', config |-> config',
    locale |-> locale', current |-> current', arrays |-> arrays' ]

\* ------------------------------------------------------------- properties
\* C1: whatever constructor, processConfig, init, applyLanguage, addLanguage
\* and loadLang did (fetch resolved or rejected, cached or not), every key of
\* config.override[L] is held by the table stored for L with the override's
\* value: no preloaded, added or fetched value shows instead.
OverrideWins ==
  \A i \in 1..Len(config.override) :
    LET l == config.override[i].locale
        o == config.override[i].tbl
    IN /\ HasLocale(langs, l)
       /\ \A k \in DOMAIN o : Prop(LangTable(This, l), k) = o[k]

\* the override is configured for fr-FR, whose table has taken in the fetched
\* file that also sets the overridden key
OverrideWinsWitness ==
  /\ config.override = Over
  /\ HasLocale(langs, "fr-FR")
  /\ Prop(LangTable(This, "fr-FR"), K2) = VFile
  /\ Prop(LangTable(This, "fr-FR"), K1) = VOver

\* C2: when fetchData rejects, loadLang does not reject: it stores under the
\* locale, and resolves to, the table applyLanguage(locale) builds from no
\* data, that is what was stored for the locale with config.override[locale]
\* on top; a setCurrent or init that awaited it goes on.
LoadLangAbsorbsFailure ==
  [][\A c \in Calls :
       FetchReject(c) =>
         LET l == calls[c].locale
             before == IF HasLocale(langs, l) THEN LangTable(This, l) ELSE EmptyObj
             o == TableOr(config.override, l)
         IN /\ HasLocale(langs', l)
            /\ DOMAIN LangTable(ThisNext, l) = (DOMAIN before) \cup (DOMAIN o)
            /\ \A k \in DOMAIN LangTable(ThisNext, l) :
                 LangTable(ThisNext, l)[k] = IF k \in DOMAIN o THEN o[k] ELSE before[k]
            /\ IF calls[c].op = "loadLang"
               THEN /\ ret'.op = "loadLang"
                    /\ ret'.how = "failed"
                    /\ ret'.ref # NoRef
                    /\ ret'.ref = LangRef(ThisNext, l)
                    /\ calls'[c] = Idle
               ELSE calls'[c].pc = "resume"]_vars

\* a loadLang of fr-FR whose fetch was rejected has resolved to the stored
\* table, which holds the override
LoadLangAbsorbsFailureWitness ==
  /\ ret.op = "loadLang"
  /\ ret.how = "failed"
  /\ ret.locale = "fr-FR"
  /\ ret.ref = LangRef(This, "fr-FR")
  /\ Prop(heap[ret.ref], K1) = VOver

\* C3: loadLang(locale, true) of a loaded locale issues no fetch, changes
\* nothing in the store and returns the very object stored for the locale;
\* every other loadLang issues a fetch for the locale.
CacheFastPath ==
  [][\A l \in Locales, useCache \in BOOLEAN :
       LoadLang(l, useCache) =>
         IF Includes(loaded, l) /\ useCache
         THEN /\ UNCHANGED <<langs, heap, loaded, config, locale, current, arrays, calls>>
              /\ ret'.op = "loadLang"
              /\ ret'.ref # NoRef
              /\ ret'.ref = LangRef(This, l)
         ELSE /\ ret' = NoReturn
              /\ \E c \in Calls :
                   /\ calls[c].pc = "idle"
                   /\ calls'[c].pc = "fetch"
                   /\ calls'[c].locale = l
                   /\ calls'[c].langFile = <<config.location, l, config.extension>>]_vars

\* a loadLang answered from the cache has returned the stored object
CacheFastPathWitness ==
  /\ ret.op = "loadLang"
  /\ ret.how = "cached"
  /\ ret.ref # NoRef
  /\ ret.ref = LangRef(This, ret.locale)

\* C4: once a setCurrent or init has completed, put(key, s) with a non-empty
\* s returns s and get(key) and getValue(key) right after it return s.
PutGetRoundTrip ==
  (ret.op = "put" /\ ret.how # "threw") =>
    getValue(This, ret.key, locale) = ret.str

\* C5: applyLanguage(L, data) stores and returns existing + data + override,
\* later operands winning; right after it getValue(K, L), for a key K of data
\* or of the override, is the override's value if override[L] has K, else
\* data[K], when that value is not empty, and is never that value when it is
\* empty: then it is a non-empty value of K from another table, or undefined.
ApplyLanguageMerges ==
  [][\A l \in Locales, lang \in AppliedLangs :
       ApplyLanguage(l, lang) =>
         LET before == IF HasLocale(langs, l) THEN LangTable(This, l) ELSE EmptyObj
             o == TableOr(config.override, l)
             after == heap'[ret'.ref]
             v(k) == IF k \in DOMAIN o THEN o[k]
                     ELSE IF k \in DOMAIN lang THEN lang[k] ELSE before[k]
         IN /\ ret'.ref # NoRef
            /\ ret'.ref = LangRef(ThisNext, l)
            /\ DOMAIN after = (DOMAIN before) \cup (DOMAIN lang) \cup (DOMAIN o)
            /\ \A k \in DOMAIN after : after[k] = v(k)
            /\ \A k \in (DOMAIN lang) \cup (DOMAIN o) :
                 IF v(k) # Empty
                 THEN getValue(ThisNext, k, l) = v(k)
                 ELSE \/ getValue(ThisNext, k, l) = UndefinedValue
                      \/ \E i \in 1..Len(langs') :
                           /\ langs'[i].locale # l
                           /\ getValue(ThisNext, k, l) # Empty
                           /\ getValue(ThisNext, k, l) = Prop(heap'[langs'[i].ref], k)]_vars

\* C5 as stated: getValue(K, L) right after applyLanguage(L, data) is the
\* override's value if override[L] has K, else data[K].
ApplyLanguageThenGetValue ==
  [][\A l \in Locales, lang \in AppliedLangs :
       ApplyLanguage(l, lang) =>
         LET o == TableOr(config.override, l)
         IN \A k \in (DOMAIN lang) \cup (DOMAIN o) :
              getValue(ThisNext, k, l) = IF k \in DOMAIN o THEN o[k] ELSE lang[k]]_vars

\* applyLanguage('fr-FR', {k: '', j: 'a'}) under the override {k: 'o'} has
\* returned the stored table, where the override beat data and j came from data
ApplyLanguageMergesWitness ==
  /\ ret.op = "applyLanguage"
  /\ ret.locale = "fr-FR"
  /\ config.override = Over
  /\ ret.ref = LangRef(This, "fr-FR")
  /\ Prop(heap[ret.ref], K1) = VOver
  /\ Prop(heap[ret.ref], K2) = VAdd
  /\ getValue(This, K2, "fr-FR") = VAdd

\* the locales getValue is asked for: the configured ones and an unknown one
QueryLocales == Locales \cup {"de-DE"}

\* C6: getValue(K, L) is L's value for K when that is truthy; otherwise (L
\* unknown, K absent, or the value empty) it is K's value in the first table,
\* in insertion order of the locales, that has a truthy value for K, and
\* undefined when no table has one.
FallbackLaw ==
  \A k \in Keys, l \in QueryLocales :
    LET own == IF HasLocale(langs, l) THEN Prop(LangTable(This, l), k)
               ELSE UndefinedValue
        hits == {i \in 1..Len(langs) : Prop(heap[langs[i].ref], k) \notin {UndefinedValue, Empty}}
    IN IF own \notin {UndefinedValue, Empty} THEN getValue(This, k, l) = own
       ELSE IF hits = {} THEN getValue(This, k, l) = UndefinedValue
       ELSE \E i \in hits :
              /\ \A h \in hits : i <= h
              /\ getValue(This, k, l) = heap[langs[i].ref][k]

\* en-US was stored before fr-FR, both have a value for j and they differ, and
\* en-US holds the empty string for k while fr-FR holds the override
FallbackLawWitness ==
  /\ Len(langs) = 2
  /\ langs[1].locale = "en-US"
  /\ langs[2].locale = "fr-FR"
  /\ Prop(LangTable(This, "en-US"), K2) = VAdd
  /\ Prop(LangTable(This, "fr-FR"), K2) = VPre
  /\ Prop(LangTable(This, "en-US"), K1) = Empty
  /\ getValue(This, K1, "en-US") = VOver
  /\ getValue(This, K2, "de-DE") = VAdd

\* C7: when setCurrent(L) completes, loaded before or after a fetch that
\* resolved or was rejected, the active locale is L, current is the table
\* stored under L, it exists and it is the value returned; init(options)
\* returns the same for the locale processConfig computed, and for 'en-US'
\* when processConfig computed none.
SetCurrentPost ==
  [][/\ ret'.op \in {"setCurrent", "init"} =>
          /\ locale' = ret'.locale
          /\ current' = ret'.ref
          /\ current' # NoRef
          /\ current' = LangRef(ThisNext, locale')
     /\ \A arg \in Locales \cup {Undefined} :
          SetCurrent(arg) =>
            LET target == IF arg = Undefined THEN "en-US" ELSE arg
            IN \/ ret'.op = "setCurrent" /\ ret'.locale = target
               \/ \E c \in Calls :
                    calls[c].pc = "idle" /\ calls'[c].pc = "fetch" /\ calls'[c].locale = target
     /\ \A options \in OptionSet :
          InitCall(options) =>
            LET computed == processConfig(PassArrays(This, options),
                                          Merge(config, OptionsObject(options))).locale
                target == IF computed = Undefined THEN "en-US" ELSE computed
            IN \/ ret'.op = "init" /\ ret'.locale = target
               \/ \E c \in Calls :
                    calls[c].pc = "idle" /\ calls'[c].pc = "fetch" /\ calls'[c].locale = target
     /\ \A c \in Calls :
          Resume(c) => ret'.op = calls[c].op /\ ret'.locale = calls[c].locale]_vars

\* C7 as stated: init(options) completes with the active locale processConfig
\* computed.
InitKeepsComputedLocale ==
  [][\A options \in OptionSet :
       (InitCall(options) /\ ret'.op = "init") =>
         locale' = processConfig(PassArrays(This, options),
                                 Merge(config, OptionsObject(options))).locale]_vars

\* a setCurrent or init that awaited a rejected fetch has completed on the
\* empty table stored for its locale
SetCurrentPostWitness ==
  /\ ret.op \in {"setCurrent", "init"}
  /\ ret.how = "awaited"
  /\ locale = ret.locale
  /\ current = LangRef(This, locale)
  /\ current # NoRef
  /\ heap[current] = EmptyObj

\* C8: after processConfig(options) the active locale is the locale option
\* when it is present and truthy; when it is present and falsy, the first
\* entry of the resulting langs list; when it is absent, the locale of
\* DEFAULT_CONFIG, 'en-US', whatever the langs list is.  init passes the
\* previous config under its options, so there the locale is always present.
ActiveLocaleResolution ==
  [][/\ \A options \in OptionSet :
          ProcessConfig(options) =>
            LET list == IF "langs" \in DOMAIN options THEN options.langs
                        ELSE arrays[DefaultLangs]
            IN locale' = IF "locale" \notin DOMAIN options THEN "en-US"
                         ELSE IF options.locale \notin {Undefined, Null, ""}
                              THEN options.locale
                         ELSE IF list = << >> THEN Undefined ELSE list[1]
     /\ \A options \in OptionSet :
          (InitCall(options) /\ ret'.op # "init") =>
            LET list == IF "langs" \in DOMAIN options THEN options.langs
                        ELSE arrays[config.langs]
                given == IF "locale" \in DOMAIN options THEN options.locale
                         ELSE config.locale
            IN locale' = IF given \notin {Undefined, Null, ""} THEN given
                         ELSE IF list = << >> THEN Undefined ELSE list[1]]_vars

\* C8 as stated: the locale option if present and truthy, otherwise (absent or
\* falsy) the first entry of the resulting langs list.
LocaleOptionOrFirstLang ==
  [][\A options \in OptionSet :
       ProcessConfig(options) =>
         LET list == IF "langs" \in DOMAIN options THEN options.langs
                     ELSE arrays[DefaultLangs]
         IN locale' = IF "locale" \in DOMAIN options
                         /\ options.locale \notin {Undefined, Null, ""}
                      THEN options.locale
                      ELSE IF list = << >> THEN Undefined ELSE list[1]]_vars

\* processConfig ran with a null locale and the langs ['fr-FR', 'en-US'], no
\* setCurrent has completed, and the active locale is the first of the langs
ActiveLocaleResolutionWitness ==
  /\ config.locale = Null
  /\ config.langs = OwnLangs
  /\ arrays[OwnLangs] = <<"fr-FR", "en-US">>
  /\ current = NoRef
  /\ locale = "fr-FR"

\* C9: from any state of the store and for any options, processConfig(options)
\* run twice in a row leaves every locale with the same table, keys and
\* values, as run once.
ProcessConfigIdempotent ==
  \A options \in OptionSet :
    LET once == processConfig(PassArrays(This, options), OptionsObject(options))
        twice == processConfig(PassArrays(once, options), OptionsObject(options))
    IN /\ LocaleKeys(twice.langs) = LocaleKeys(once.langs)
       /\ \A i \in 1..Len(once.langs) :
            twice.heap[twice.langs[i].ref] = once.heap[once.langs[i].ref]

\* fr-FR holds a fetched value for j, and processConfig with the preloaded
\* {j: 'p'} changes it: re-applying has an effect for the second run to repeat
ProcessConfigIdempotentWitness ==
  /\ HasLocale(langs, "fr-FR")
  /\ Prop(LangTable(This, "fr-FR"), K2) = VFile
  /\ \E options \in OptionSet :
       LET once == processConfig(PassArrays(This, options), OptionsObject(options))
       IN Prop(LangTable(once, "fr-FR"), K2) = VPre

\* C10: a key of config.preloaded[L] that is not in override[L] and for which
\* a fetched file, addLanguage or put has supplied a value since keeps the
\* supplied value, also across a later init or processConfig with the same
\* preloaded data: it never goes back to the preloaded value.
PreloadedLowest ==
  [][\A l \in Locales, k \in Keys :
       ( /\ "preloaded" \in DOMAIN config
         /\ "preloaded" \in DOMAIN config'
         /\ config'.preloaded = config.preloaded
         /\ k \in DOMAIN TableOr(config.preloaded, l)
         /\ k \notin DOMAIN TableOr(config.override, l)
         /\ k \notin DOMAIN TableOr(config'.override, l)
         /\ HasLocale(langs, l)
         /\ Prop(LangTable(This, l), k) \in {VFile, VAdd, VPut} )
       => Prop(LangTable(ThisNext, l), k) = Prop(LangTable(This, l), k)]_vars

\* C11: stores are independent: whatever was done to this store, a store
\* constructed without options lists the languages DEFAULT_CONFIG was written
\* with, ['en-US'], has the locale 'en-US' and holds no table; the same list
\* is what every other store built without a langs option shows as getLangs.
InstancesIndependent ==
  /\ getLangs(NewStore) = <<"en-US">>
  /\ NewStore.locale = "en-US"
  /\ NewStore.langs = << >>
  /\ NewStore.loaded = EmptyBag

\* C12: put, get and getValue complete without raising in every state of the
\* store, also before any setCurrent or init has completed; a key no table
\* has a value for gives undefined, whatever the locale asked for.
NoOperationThrows ==
  /\ ret.how # "threw"
  /\ \A k \in Keys, l \in QueryLocales :
       (\A i \in 1..Len(langs) : Prop(heap[langs[i].ref], k) = UndefinedValue)
         => /\ getValue(This, k, l) = UndefinedValue
            /\ get(This, k, NoArgs) = UndefinedValue

\* C16: whenever current is defined, it is the very object the store holds
\* under the active locale.
CurrentIsStoredTable ==
  current # NoRef => (HasLocale(langs, locale) /\ current = LangRef(This, locale))

\* C17: every locale of the loaded collection is in it once.
LoadedHasNoDuplicates ==
  \A l \in BagToSet(loaded) : CopiesIn(l, loaded) = 1

\* what the token named name is to be replaced by under the arguments args
TokenText(name, args) ==
  IF args.type = "object"
  THEN IF name \in DOMAIN args.val /\ args.val[name] # NullValue
       THEN args.val[name] ELSE << >>
  ELSE IF args.type = "number" THEN NumberToString(args.val)
  ELSE args.val

\* the text s from position i on, every token replaced as a whole by its
\* TokenText and every other character kept
RECURSIVE Interpolated(_, _, _)
Interpolated(s, args, i) ==
  IF i > Len(s) THEN << >>
  ELSE IF TokenEnd(s, i) # 0
       THEN TokenText(SubSeq(s, i + 1, TokenEnd(s, i) - 1), args)
              \o Interpolated(s, args, TokenEnd(s, i) + 1)
       ELSE <<s[i]>> \o Interpolated(s, args, i + 1)

\* C13: get(key, args) with an object args returns the value of key with
\* every occurrence of every token {t} replaced by args[t], or by the empty
\* string when args has no non-null t, and all other text untouched, whatever
\* the token names and the replacement values are.
ObjectArgsInterpolate ==
  [][\A args \in ObjectArgs :
       Get(K1, args) =>
         LET value == getValue(This, K1, locale)
         IN ret'.str = IF Truthy(value) THEN Interpolated(value, args, 1)
                       ELSE UndefinedValue]_vars

\* C14: get(key, args) with a primitive args, string or number, returns the
\* value of key with every token replaced by the primitive as a string; with
\* no args it returns the value as it is.
PrimitiveArgsInterpolate ==
  [][LET value == getValue(This, K1, locale)
     IN /\ \A args \in PrimitiveArgs :
             Get(K1, args) =>
               ret'.str = IF Truthy(value) THEN Interpolated(value, args, 1)
                          ELSE UndefinedValue
        /\ \A args \in NumberArgs :
             Get(K1, args) =>
               ret'.str = IF Truthy(value) THEN Interpolated(value, args, 1)
                          ELSE UndefinedValue
        /\ Get(K1, NoArgs) =>
             ret'.str = IF Truthy(value) THEN value ELSE UndefinedValue]_vars

\* where the lines of a text that hold a character start, and where the line
\* that starts at a ends
LineStarts(t) == {a \in 1..Len(t) : t[a] # NL /\ (a = 1 \/ t[a - 1] = NL)}

LineAt(t, a) ==
  SubSeq(t, a, CHOOSE b \in a..Len(t) :
                 /\ \A i \in a..b : t[i] # NL
                 /\ (b = Len(t) \/ t[b + 1] = NL))

\* line is a key of n characters, spaces, an '=' at e, and at least one more
\* character; the key holds no '=' and does not end in a space
IsEntry(line, n, e) ==
  /\ 1 <= n /\ n < e /\ e < Len(line)
  /\ line[e] = EQ
  /\ \A i \in (n + 1)..(e - 1) : line[i] = SP
  /\ line[n] # SP
  /\ \A i \in 1..n : line[i] # EQ

\* v without the spaces around it
Stripped(v) ==
  IF \A i \in 1..Len(v) : v[i] = SP THEN << >>
  ELSE SubSeq(v, CHOOSE i \in 1..Len(v) : v[i] # SP /\ \A h \in 1..(i - 1) : v[h] = SP,
                 CHOOSE i \in 1..Len(v) : v[i] # SP /\ \A h \in (i + 1)..Len(v) : v[h] = SP)

\* the newline at i only borders an empty line
BlankBreak(t, i) ==
  t[i] = NL /\ (i = 1 \/ t[i - 1] = NL \/ \A j \in (i + 1)..Len(t) : t[j] = NL)

\* t from position i on, without its empty lines
RECURSIVE DropBlankLines(_, _)
DropBlankLines(t, i) ==
  IF i > Len(t) THEN << >>
  ELSE (IF BlankBreak(t, i) THEN << >> ELSE <<t[i]>>) \o DropBlankLines(t, i + 1)

\* C15: processFile returns a table for every text.  Every line that is a
\* key, optional spaces, '=', optional spaces and a value gives the key,
\* without the spaces before the '=', the value without the spaces around it,
\* the last such line of a key deciding; every key of the table is the start
\* of a line that holds an '=' after it; and the table is the one the text
\* without its empty lines gives.
FileParserLaw ==
  ret.op = "processFile" =>
    LET text == ret.str
        lang == heap[ret.ref]
    IN /\ ret.how = "none"
       /\ ret.ref # NoRef
       /\ \A a \in LineStarts(text) :
            LET line == LineAt(text, a)
            IN \A n \in 1..Len(line), e \in 1..Len(line) :
                 ( /\ IsEntry(line, n, e)
                   /\ \A b \in LineStarts(text) :
                        b > a => \A m \in 1..Len(LineAt(text, b)) :
                                   ~ /\ IsEntry(LineAt(text, b), n, m)
                                     /\ SubSeq(LineAt(text, b), 1, n) = SubSeq(line, 1, n) )
                 => /\ SubSeq(line, 1, n) \in DOMAIN lang
                    /\ lang[SubSeq(line, 1, n)] = Stripped(SubSeq(line, e + 1, Len(line)))
       /\ \A key \in DOMAIN lang :
            \E a \in LineStarts(text) :
              LET line == LineAt(text, a)
              IN /\ Len(key) < Len(line)
                 /\ SubSeq(line, 1, Len(key)) = key
                 /\ \E e \in (Len(key) + 1)..Len(line) : line[e] = EQ
       /\ lang = processFile(DropBlankLines(text, 1))

\* the text  "k =k\n\nk=="  was parsed: spaces before the '=', an empty line
\* between the entries, and the second entry of k decided
FileParserLawWitness ==
  /\ ret.op = "processFile"
  /\ ret.str = <<"k", SP, EQ, "k", NL, NL, "k", EQ, EQ>>
  /\ heap[ret.ref] = (K1 :> <<EQ>>)

\* C18: in every step a locale the store holds stays in it, and every key of
\* its table is a key of the table stored for it after the step.
TablesOnlyGrow ==
  [][\A i \in 1..Len(langs) :
       /\ HasLocale(langs', langs[i].locale)
       /\ DOMAIN heap[langs[i].ref] \subseteq DOMAIN LangTable(ThisNext, langs[i].locale)]_vars

\* fr-FR was loaded again, the fetch was rejected, and the table stored
\* instead of the preloaded one has both its keys
TablesOnlyGrowWitness ==
  /\ ret.op = "loadLang"
  /\ ret.how = "failed"
  /\ ret.locale = "fr-FR"
  /\ config.override = Over
  /\ DOMAIN LangTable(This, "fr-FR") = Keys
  /\ Prop(LangTable(This, "fr-FR"), K2) = VPre

\* the locale a call is for: setCurrent's default is 'en-US'
Target(arg) == IF arg = Undefined THEN "en-US" ELSE arg

\* a fetch for l is issued in the step
FetchIssued(l) ==
  \E c \in Calls : calls[c].pc = "idle" /\ calls'[c].pc = "fetch" /\ calls'[c].locale = l

\* setCurrent and init fetch exactly when the locale is not loaded, and
\* otherwise return the stored table at once
FetchOnlyUnloaded ==
  /\ \A arg \in Locales \cup {Undefined} :
       SetCurrent(arg) =>
         IF Includes(loaded, Target(arg))
         THEN /\ calls' = calls
              /\ ret'.op = "setCurrent"
              /\ ret'.ref # NoRef
              /\ ret'.ref = LangRef(This, Target(arg))
              /\ heap'[ret'.ref] = LangTable(This, Target(arg))
         ELSE ret' = NoReturn /\ FetchIssued(Target(arg))
  /\ \A options \in OptionSet :
       InitCall(options) =>
         LET this == processConfig(PassArrays(This, options),
                                   Merge(config, OptionsObject(options)))
         IN IF Includes(this.loaded, Target(this.locale))
            THEN /\ calls' = calls
                 /\ ret'.op = "init"
                 /\ ret'.ref # NoRef
                 /\ ret'.ref = LangRef(ThisNext, Target(this.locale))
            ELSE ret' = NoReturn /\ FetchIssued(Target(this.locale))

\* a value addLanguage or applyLanguage supplied for a key that no override
\* holds is what get returns once setCurrent or init has completed
SuppliedDataShows ==
  \A l \in Locales, k \in Keys :
    ( /\ ret'.op \in {"setCurrent", "init"}
      /\ ret'.locale = l
      /\ HasLocale(langs, l)
      /\ Prop(LangTable(This, l), k) = VAdd
      /\ k \notin DOMAIN TableOr(config'.override, l) )
    => get(ThisNext, k, NoArgs) = VAdd

\* C19: setCurrent(L) and init fetch only a locale that is not loaded; for a
\* loaded one they fetch nothing and return the table stored for it, so the
\* data supplied for it is what get returns afterwards.
NoFetchForLoaded == [][FetchOnlyUnloaded /\ SuppliedDataShows]_vars

\* C20: a rejected fetch leaves its locale loaded, with the table
\* applyLanguage(locale) builds; a loaded locale stays loaded and stored; and
\* for a loaded locale loadLang(L, true) and setCurrent(L) return the stored
\* table and issue no fetch, while loadLang(L, false) issues one.
FailedLoadIsCached ==
  [][/\ \A c \in Calls :
          FetchReject(c) =>
            /\ Includes(loaded', calls[c].locale)
            /\ HasLocale(langs', calls[c].locale)
            /\ LangTable(ThisNext, calls[c].locale) =
                 Merge(IF HasLocale(langs, calls[c].locale)
                       THEN LangTable(This, calls[c].locale) ELSE EmptyObj,
                       TableOr(config.override, calls[c].locale))
     /\ \A l \in Locales :
          Includes(loaded, l) =>
            /\ Includes(loaded', l)
            /\ HasLocale(langs, l)
            /\ HasLocale(langs', l)
            /\ LoadLang(l, TRUE) =>
                 /\ calls' = calls
                 /\ ret'.ref # NoRef
                 /\ ret'.ref = LangRef(This, l)
                 /\ heap'[ret'.ref] = LangTable(This, l)
            /\ SetCurrent(l) =>
                 /\ calls' = calls
                 /\ ret'.ref # NoRef
                 /\ ret'.ref = LangRef(This, l)
                 /\ heap'[ret'.ref] = LangTable(This, l)
            /\ LoadLang(l, FALSE) => (ret' = NoReturn /\ FetchIssued(l))]_vars

\* a loadLang of en-US, which nothing is configured for, had its fetch
\* rejected: en-US is loaded and the empty table is stored and returned
FailedLoadIsCachedWitness ==
  /\ ret.op = "loadLang"
  /\ ret.how = "failed"
  /\ ret.locale = "en-US"
  /\ Includes(loaded, "en-US")
  /\ ret.ref = LangRef(This, "en-US")
  /\ heap[ret.ref] = EmptyObj

\* C21: with two setCurrent calls in flight at once, for the same locale or
\* for two, whatever the order in which their fetches complete and they
\* resume: a call that completes makes its own locale the active one and
\* returns the table stored under it, which becomes current; a fetch that
\* completes touches the table of its own locale only; and once both calls
\* have completed, the active locale and current are those of the call that
\* completed last, current being the table stored under the active locale.
RacingSetCurrent ==
  [][/\ \A c \in DOMAIN calls :
          Resume(c) =>
            /\ locale' = calls[c].locale
            /\ current' # NoRef
            /\ current' = LangRef(ThisNext, calls[c].locale)
            /\ ret'.op = "setCurrent"
            /\ ret'.locale = calls[c].locale
            /\ ret'.ref = current'
            /\ calls'[c] = Idle
            /\ \A d \in DOMAIN calls : d # c => calls'[d] = calls[d]
     /\ \A c \in DOMAIN calls :
          (FetchReject(c) \/ \E text \in FileTexts : FetchResolve(c, text)) =>
            /\ locale' = locale
            /\ \A i \in 1..Len(langs) :
                 langs[i].locale # calls[c].locale =>
                   LangTable(ThisNext, langs[i].locale) = heap[langs[i].ref]
            /\ \A d \in DOMAIN calls : d # c => calls'[d] = calls[d]
     /\ (\A c \in DOMAIN calls : calls'[c] = Idle) =>
          /\ HasLocale(langs', locale')
          /\ current' # NoRef
          /\ current' = LangRef(ThisNext, locale')
          /\ (\E c \in DOMAIN calls : Resume(c)) \/ (locale' = locale /\ current' = current)]_vars

\* both calls have completed: the fetch for en-US completed before the one
\* for fr-FR, the call for fr-FR resumed first, and the call for en-US, the
\* last to complete, has made en-US active and its table current
RacingSetCurrentWitness ==
  /\ \A c \in DOMAIN calls : calls[c] = Idle
  /\ ret.op = "setCurrent"
  /\ ret.how = "awaited"
  /\ ret.locale = "en-US"
  /\ Len(langs) = 2
  /\ langs[1].locale = "en-US"
  /\ langs[2].locale = "fr-FR"
  /\ locale = "en-US"
  /\ current = LangRef(This, "en-US")
  /\ ret.ref = current

====
